---- MODULE Spec2Model ----
(***************************************************************************)
(* Model of the build orchestration of backend/app/build.py: the job       *)
(* registry (BuildManager), the thread that runs one job (_run_job), the   *)
(* pipeline (BuildService.build_mod) and the callers of backend/app/api.py *)
(* that read job records (to_dict).                                        *)
(*                                                                         *)
(* Granularity.  Every assignment to a field of a BuildJob is one step,    *)
(* because to_dict reads the fields of the live object without the lock.   *)
(* Work that no other thread can see (listing and copying files inside    *)
(* the private working directory, raising and unwinding an exception,      *)
(* acquiring the lock just before the first assignment of a critical       *)
(* section, releasing it just after the last one) is part of the step      *)
(* that follows or precedes it.  time.time() returns any value from the    *)
(* last one returned up to MaxTime: the clock advances only when read.     *)
(*                                                                         *)
(* Progress is a float in the code.  It is modelled as an exact multiple   *)
(* of 1/Den, Den being a common denominator of every ratio the pipeline    *)
(* can report within the bounds; One stands for 1.0.                       *)
(* The doubles the code computes for the span and the stage offsets are    *)
(* computed separately (FDiv, FMulInt) with IEEE 754 rounding.             *)
(*                                                                         *)
(* The stage functions of BuildService are modelled a second time on their *)
(* own (StageSpec): one run of one stage on a source location, file by     *)
(* file, with what it writes, reports and raises.  The registry model      *)
(* above sees of a stage only how many files it has and whether it raises. *)
(***************************************************************************)
EXTENDS Integers, Sequences, FiniteSets, TLC

\* ---------------------------------------------------------------- bounds
MaxJobs == 2      \* start_build calls made
MaxFiles == 1     \* files a stage finds in its source location
MaxTime == 1      \* largest value time.time() returns

\* ------------------------------------------------------------- constants
NumSteps == 4     \* len(steps) in build_mod

Calls == 1..MaxJobs
Projects == {"abc"}
NoJob == [none |-> TRUE]
NoPath == <<>>
NoExc == [exc |-> FALSE]
Unknown == 0 - 1

RECURSIVE Gcd(_, _)
Gcd(a, b) == IF b = 0 THEN a ELSE Gcd(b, a % b)

RECURSIVE LcmUpTo(_)
LcmUpTo(n) == IF n <= 1 THEN 1 ELSE LET l == LcmUpTo(n - 1) IN (l * n) \div Gcd(l, n)

\* progress unit: One == 1.0
Den == (NumSteps + 1) * LcmUpTo(MaxFiles)
One == Den

\* span = 1 / (len(steps) + 1)
Span == One \div (NumSteps + 1)

VARIABLES
    now,        \* the last value time.time() returned
    lock,       \* BuildManager._lock: 0 when free, else the job thread holding it
    jobs,       \* BuildManager.jobs: the dict as its items in insertion order
    job,        \* the BuildJob objects, by the call that constructed them
    call,       \* position of each start_build call
    thr,        \* the thread of each job: position and locals of _run_job / build_mod
    archives,   \* archive files present under build_root
    fver,       \* history: for each field of each job, the serial number of the
                \* critical section that last wrote it (0: none has)
    obs,        \* a caller of the API holding a job reference and serialising it
    st          \* one run of a stage function of BuildService: its inputs (the
                \* source location, the converter, the manifest), its position
                \* and what it has written, reported and raised

vars == <<now, lock, jobs, job, call, thr, archives, fver, obs, st>>

\* the variables of the registry, its threads and its callers
sys == <<now, lock, jobs, job, call, thr, archives, fver, obs>>

\* -------------------------------------------------------------- BuildJob
Fields == <<"status", "progress", "message", "artifact_path", "updated_at">>
FieldSet == {Fields[i] : i \in 1..Len(Fields)}

\* a faulty default: the record is born running
NewJobRunning(id, project, t1, t2) ==
    [id |-> id, project_id |-> project, status |-> "running", progress |-> 0,
     message |-> "Queued", artifact_path |-> NoPath,
     created_at |-> t1, updated_at |-> t2]

\* dataclass defaults of BuildJob
NewJob(id, project, t1, t2) ==
    [id |-> id, project_id |-> project, status |-> "queued", progress |-> 0,
     message |-> "Queued", artifact_path |-> NoPath,
     created_at |-> t1, updated_at |-> t2]

Terminal == {"completed", "failed"}

\* a faulty generator: every call draws the same id
Uuid4Collides(c) == 1

\* uuid.uuid4(): distinct calls draw distinct ids
Uuid4(c) == c

\* self.jobs[job_id] = job on a dict kept in insertion order
DictSet(d, k, v) ==
    IF \E i \in 1..Len(d) : d[i].key = k
    THEN [i \in 1..Len(d) |-> IF d[i].key = k THEN [key |-> k, obj |-> v] ELSE d[i]]
    ELSE Append(d, [key |-> k, obj |-> v])

\* a faulty lookup: the key is never found
DictGetMissing(d, k) == 0

\* a faulty lookup: the first value is returned whatever the key
DictGetFirst(d, k) == IF d = <<>> THEN 0 ELSE d[1].obj

\* self.jobs.get(job_id)
DictGet(d, k) ==
    IF \E i \in 1..Len(d) : d[i].key = k
    THEN (CHOOSE e \in {d[i] : i \in 1..Len(d)} : e.key = k).obj
    ELSE 0

\* list(self.jobs.values()) under the lock
ListJobs == [i \in 1..Len(jobs) |-> jobs[i].obj]

\* ------------------------------------------------------------- threads
IdleThread ==
    [pc |-> "none", ref |-> 0, stage |-> 0, idx |-> 0, total |-> 0, seq |-> 0,
     ratio |-> 0, msg |-> "", at |-> "stage", raised |-> NoExc, exc |-> NoExc,
     archive |-> NoPath, asec |-> Unknown, tmp |-> NoPath]

\* Serial numbers of the critical sections of one job, in the order _run_job
\* enters them: the callback before stage `index` (num = 0) and after its
\* file `num`, the two callbacks around archiving, completion, failure.
SerialStep(index, num) == (index - 1) * (MaxFiles + 1) + num + 1
SerialArchive == NumSteps * (MaxFiles + 1) + 1
SerialBuilt == SerialArchive + 1
SerialComplete == SerialArchive + 2
SerialFail == SerialArchive + 3

\* the fields a critical section assigns
Written(serial) ==
    IF serial = SerialFail THEN {"status", "message", "updated_at"}
    ELSE IF serial = SerialComplete
    THEN {"status", "progress", "message", "artifact_path", "updated_at"}
    ELSE {"status", "progress", "message", "updated_at"}

\* time.time(): t is a value the call can return
TimeTime(t) == t \in now..MaxTime /\ now' = t

\* what a caller of the API holds: the objects it serialises (refs), the one
\* it is at (i), the field to_dict reads next (k), the dict built so far
\* (snap), the serial numbers of the values read (sver), and the last dict a
\* get_build request returned (last)
Unread == "unread"
NoSnap ==
    [id |-> Unread, project_id |-> Unread, status |-> Unread, progress |-> Unread,
     message |-> Unread, artifact_path |-> Unread, created_at |-> Unread,
     updated_at |-> Unread]
NoVer == [f \in FieldSet |-> 0]
NoLast == [ref |-> 0, progress |-> 0, terminal |-> FALSE]

IdleObs ==
    [pc |-> "idle", src |-> "none", refs |-> <<>>, i |-> 0, k |-> 0,
     snap |-> NoSnap, sver |-> NoVer, last |-> NoLast]

\* no stage function is being run on its own
NoStage == [pc |-> "none"]

SysInit(t) ==
    /\ now = t
    /\ lock = 0
    /\ jobs = <<>>
    /\ job = [c \in Calls |-> NoJob]
    /\ call = [c \in Calls |-> "idle"]
    /\ thr = [c \in Calls |-> IdleThread]
    /\ archives = {}
    /\ fver = [c \in Calls |-> [f \in FieldSet |-> 0]]
    /\ obs = IdleObs

InitAt(t) == SysInit(t) /\ st = NoStage

Init == InitAt(0)

\* ------------------------------------------------------- start_build
\* job_id = str(uuid.uuid4()); job = BuildJob(...); with self._lock: self.jobs[job_id] = job
\* (created_at and updated_at are two reads of the clock)
StartBuildInsert(c, p, t1, t2) ==
    /\ call[c] = "idle"
    /\ lock = 0
    /\ t1 \in now..t2
    /\ TimeTime(t2)
    /\ job' = [job EXCEPT ![c] = NewJob(Uuid4(c), p, t1, t2)]
    /\ jobs' = DictSet(jobs, Uuid4(c), c)
    /\ call' = [call EXCEPT ![c] = "inserted"]
    /\ UNCHANGED <<st, lock, thr, archives, fver, obs>>

\* thread = threading.Thread(target=self._run_job, args=(job_id,)); thread.start()
StartBuildThread(c) ==
    /\ call[c] = "inserted"
    /\ call' = [call EXCEPT ![c] = "started"]
    /\ thr' = [thr EXCEPT ![c].pc = "get"]
    /\ UNCHANGED <<st, now, lock, jobs, job, archives, fver, obs>>

\* return job
StartBuildReturn(c) ==
    /\ call[c] = "started"
    /\ call' = [call EXCEPT ![c] = "returned"]
    /\ UNCHANGED <<st, now, lock, jobs, job, thr, archives, fver, obs>>

\* ----------------------------------------------------------- _run_job
\* job = self.get_job(job_id); if not job: return
RunGetJob(j) ==
    /\ thr[j].pc = "get"
    /\ lock = 0
    /\ LET r == DictGet(jobs, job[j].id) IN
         thr' = [thr EXCEPT ![j].ref = r, ![j].pc = IF r = 0 THEN "done" ELSE "s296"]
    /\ UNCHANGED <<st, now, lock, jobs, job, call, archives, fver, obs>>

\* job.status = "running"            (no lock held)
Run296(j) ==
    /\ thr[j].pc = "s296"
    /\ job' = [job EXCEPT ![thr[j].ref].status = "running"]
    /\ thr' = [thr EXCEPT ![j].pc = "s297"]
    /\ UNCHANGED <<st, now, lock, jobs, call, archives, fver, obs>>

\* tempfile.TemporaryDirectory(prefix=f"openck3-{project_id}-"): mkdtemp makes a
\* directory under a name that does not exist yet (c stands for the random part)
Mkdtemp(project, c) == <<"openck3", project, c>>

\* job.message = "Starting build"    (no lock held); then build_mod is entered:
\* the working directory is made and span computed
Run297(j) ==
    /\ thr[j].pc = "s297"
    /\ job' = [job EXCEPT ![thr[j].ref].message = "Starting build"]
    /\ thr' = [thr EXCEPT ![j].pc = "stage", ![j].stage = 0, ![j].idx = 0, ![j].total = 0,
                          ![j].tmp = Mkdtemp(job[thr[j].ref].project_id, j)]
    /\ UNCHANGED <<st, now, lock, jobs, call, archives, fver, obs>>

\* ------------------------------------------------- update (the callback)
\* with self._lock: job.status = "running"     the callback is entered with
\* (ratio, message) by thread j in state t and returns to position `back`
UpdateBegin(j, t, serial, ratio, message, back) ==
    /\ lock = 0
    /\ lock' = j
    /\ job' = [job EXCEPT ![t.ref].status = "running"]
    /\ fver' = [fver EXCEPT ![t.ref].status = serial]
    /\ thr' = [thr EXCEPT ![j] = [t EXCEPT !.pc = "u_progress", !.seq = serial,
                                             !.ratio = ratio, !.msg = message, !.at = back]]

\* job.progress = ratio
UpdateProgress(j) ==
    /\ thr[j].pc = "u_progress"
    /\ job' = [job EXCEPT ![thr[j].ref].progress = thr[j].ratio]
    /\ fver' = [fver EXCEPT ![thr[j].ref].progress = thr[j].seq]
    /\ thr' = [thr EXCEPT ![j].pc = "u_message"]
    /\ UNCHANGED <<st, now, lock, jobs, call, archives, obs>>

\* job.message = message
UpdateMessage(j) ==
    /\ thr[j].pc = "u_message"
    /\ job' = [job EXCEPT ![thr[j].ref].message = thr[j].msg]
    /\ fver' = [fver EXCEPT ![thr[j].ref].message = thr[j].seq]
    /\ thr' = [thr EXCEPT ![j].pc = "u_updated"]
    /\ UNCHANGED <<st, now, lock, jobs, call, archives, obs>>

\* a faulty callback: it returns with the lock still held
UpdateUpdatedAtKeepsLock(j, t) ==
    /\ thr[j].pc = "u_updated"
    /\ TimeTime(t)
    /\ job' = [job EXCEPT ![thr[j].ref].updated_at = t]
    /\ fver' = [fver EXCEPT ![thr[j].ref].updated_at = thr[j].seq]
    /\ thr' = [thr EXCEPT ![j].pc = thr[j].at]
    /\ UNCHANGED <<st, lock, jobs, call, archives, obs>>

\* job.updated_at = time.time(); the lock is released and the callback returns
UpdateUpdatedAt(j, t) ==
    /\ thr[j].pc = "u_updated"
    /\ TimeTime(t)
    /\ job' = [job EXCEPT ![thr[j].ref].updated_at = t]
    /\ fver' = [fver EXCEPT ![thr[j].ref].updated_at = thr[j].seq]
    /\ lock' = 0
    /\ thr' = [thr EXCEPT ![j].pc = thr[j].at]
    /\ UNCHANGED <<st, jobs, call, archives, obs>>

\* ------------------------------------- _run_job: the except handler
Exc(m) == [exc |-> TRUE, msg |-> m]

\* str(exc)
Str(e) == IF e = NoExc THEN "" ELSE e.msg

\* what a stage can raise: its own BuildError or the OSError of a file
\* operation, and an exception whose str() is empty (raised without arguments)
StageErrors(index) ==
    {Exc(""),
     Exc(CASE index = 1 -> "[Errno 13] Permission denied"
           [] index = 2 -> "No DDS converter (ImageMagick or texconv) available"
           [] index = 3 -> "Unsupported audio format: .mp3"
           [] OTHER -> "Expecting value: line 1 column 1 (char 0)")}

\* what shutil.make_archive can raise
ArchiveErrors == {Exc("[Errno 28] No space left on device")}

\* what removing the working directory can raise
CleanupErrors == {Exc("[Errno 39] Directory not empty")}

\* leaving `with tempfile.TemporaryDirectory(...)` with exception e in flight
\* (NoExc on the normal path): the working directory is removed; when the
\* removal raises c, c replaces e
ExitWith(e, c) == IF c = NoExc THEN e ELSE c

\* what is left of the working directory `dir` when its removal raised c, or
\* did not raise (NoExc)
Cleanup(dir, c) == IF c = NoExc THEN NoPath ELSE dir

\* the stage or archiving of thread j raises e; the exception leaves the with
\* block (removing the working directory raises c, or nothing) and build_mod
Raise(j, n, e, c) ==
    /\ thr' = [thr EXCEPT ![j].pc = "except", ![j].total = n, ![j].raised = e,
                          ![j].exc = ExitWith(e, c), ![j].tmp = Cleanup(thr[j].tmp, c)]
    /\ UNCHANGED <<st, now, lock, jobs, job, call, archives, fver, obs>>

\* except Exception as exc: with self._lock: job.status = "failed"
FailStatus(j) ==
    LET o == thr[j].ref IN
    /\ thr[j].pc = "except"
    /\ lock = 0
    /\ lock' = j
    /\ job' = [job EXCEPT ![o].status = "failed"]
    /\ fver' = [fver EXCEPT ![o].status = SerialFail]
    /\ thr' = [thr EXCEPT ![j].pc = "f_message", ![j].seq = SerialFail]
    /\ UNCHANGED <<st, now, jobs, call, archives, obs>>

\* job.message = str(exc)
FailMessage(j) ==
    /\ thr[j].pc = "f_message"
    /\ job' = [job EXCEPT ![thr[j].ref].message = Str(thr[j].exc)]
    /\ fver' = [fver EXCEPT ![thr[j].ref].message = thr[j].seq]
    /\ thr' = [thr EXCEPT ![j].pc = "f_updated"]
    /\ UNCHANGED <<st, now, lock, jobs, call, archives, obs>>

\* job.updated_at = time.time(); the lock is released and the thread ends
FailUpdatedAt(j, t) ==
    /\ thr[j].pc = "f_updated"
    /\ TimeTime(t)
    /\ job' = [job EXCEPT ![thr[j].ref].updated_at = t]
    /\ fver' = [fver EXCEPT ![thr[j].ref].updated_at = thr[j].seq]
    /\ lock' = 0
    /\ thr' = [thr EXCEPT ![j].pc = "done"]
    /\ UNCHANGED <<st, jobs, call, archives, obs>>

\* ------------------------------------------------ float arithmetic
\* The values the expressions of build_mod have as Python floats (IEEE 754
\* doubles: 53 bits of mantissa, round to nearest, ties to even).  A double
\* is its mantissa, held as three limbs hi, mid, lo of 17, 18 and 18 bits
\* (hi >= 2^16), and the exponent e of its last bit: the value is
\* (hi * 2^36 + mid * 2^18 + lo) * 2^e.  0.0 has mantissa 0.
Base == 2^18
Top == 2^16

FZero == [e |-> 0, hi |-> 0, mid |-> 0, lo |-> 0]

\* p / q = (p1 / q1) * 2^k with 1 <= p1 / q1 < 2
RECURSIVE Norm(_, _, _)
Norm(p, q, k) ==
    IF p >= 2 * q THEN Norm(p, 2 * q, k + 1)
    ELSE IF p < q THEN Norm(2 * p, q, k - 1)
    ELSE [p |-> p, q |-> q, k |-> k]

\* the double next above u
RoundUp(u) ==
    IF u.lo + 1 < Base THEN [u EXCEPT !.lo = u.lo + 1]
    ELSE IF u.mid + 1 < Base THEN [u EXCEPT !.lo = 0, !.mid = u.mid + 1]
    ELSE IF u.hi + 1 < 2 * Top THEN [u EXCEPT !.lo = 0, !.mid = 0, !.hi = u.hi + 1]
    ELSE [e |-> u.e + 1, hi |-> Top, mid |-> 0, lo |-> 0]

\* v, the exact value cut after 53 bits, rounded: `more` says the part cut
\* off is above half a unit of the last bit, `half` that it is exactly half
Round(v, more, half) ==
    IF more \/ (half /\ v.lo % 2 = 1) THEN RoundUp(v) ELSE v

\* p / q for ints p >= 0, q > 0 (true division is correctly rounded):
\* long division, one limb at a time
FDiv(p, q) ==
    IF p = 0 THEN FZero
    ELSE LET nm == Norm(p, q, 0)
             r1 == (nm.p * Top) % nm.q
             r2 == (r1 * Base) % nm.q
             r3 == (r2 * Base) % nm.q
         IN Round([e |-> nm.k - 52, hi |-> (nm.p * Top) \div nm.q,
                   mid |-> (r1 * Base) \div nm.q, lo |-> (r2 * Base) \div nm.q],
                  2 * r3 > nm.q, 2 * r3 = nm.q)

\* the number of bits by which the top limb a exceeds 17 bits
RECURSIVE Excess(_)
Excess(a) == IF a < 2 * Top THEN 0 ELSE 1 + Excess(a \div 2)

\* k * x for an int k >= 0 and a double x: the exact product, limb by limb
\* with carries, cut to 53 bits and rounded
FMulInt(k, x) ==
    IF k = 0 \/ x = FZero THEN FZero
    ELSE LET l == k * x.lo
             m == k * x.mid + l \div Base
             h == k * x.hi + m \div Base
             s == Excess(h)
             cut == (l % Base) % 2^s
         IN Round([e |-> x.e + s, hi |-> h \div 2^s,
                   mid |-> (m % Base) \div 2^s + (h % 2^s) * (Base \div 2^s),
                   lo |-> (l % Base) \div 2^s + ((m % Base) % 2^s) * (Base \div 2^s)],
                  s > 0 /\ 2 * cut > 2^s, s > 0 /\ 2 * cut = 2^s)

\* span = 1 / (len(steps) + 1)
FSpan == FDiv(1, NumSteps + 1)

\* (index - 1) * span
FStepStart(index) == FMulInt(index - 1, FSpan)

\* len(steps) * span
FArchiveStart == FMulInt(NumSteps, FSpan)

\* ----------------------------------------------------------- build_mod
\* f"Running {step_name.replace('_', ' ')}"
RunningMsg(index) ==
    CASE index = 1 -> "Running collect project files"
      [] index = 2 -> "Running convert dds assets"
      [] index = 3 -> "Running package audio tracks"
      [] OTHER -> "Running write descriptor"

\* the message a stage passes to its callback after one file
FileMsg(index) ==
    CASE index = 1 -> "Copied {rel}"
      [] index = 2 -> "Processed {file_path.name}"
      [] index = 3 -> "Packaged {file_path.name}"
      [] OTHER -> "Descriptor generated"

\* a faulty offset: the index of enumerate(steps, start=1) taken as 0-based
StepStartFromZero(index) == index * Span

\* (index - 1) * span
StepStart(index) == (index - 1) * Span

\* a faulty mapping: the offset of the stage is left out
StepCallbackNoOffset(index, num, total) == (num * Span) \div total

\* a faulty step_callback: the ratio of the stage is not scaled by span
StepCallbackUnscaled(index, num, total) == (index - 1) * Span + (num * One) \div total

\* step_callback: (_index - 1) * span + ratio * span, where ratio = num / total
StepCallback(index, num, total) == (index - 1) * Span + (num * Span) \div total

\* len(files) of a stage; _write_descriptor writes one file and reports 1.0
Totals(index) == IF index = NumSteps THEN {1} ELSE 0..MaxFiles

\* n is the number of files the running stage has: the one it listed, or any
\* it can list when it has not listed yet
IsTotal(t, n) ==
    /\ t.pc = "stage"
    /\ t.stage >= 1
    /\ IF t.total = Unknown THEN n \in Totals(t.stage) ELSE n = t.total

\* the running stage, if any, returns (it has no file left), and the loop goes on:
\* callback(step_name, (index - 1) * span, ...) for the next stage, or after the
\* last stage callback("archive", len(steps) * span, "Creating archive")
NextStep(j, n) ==
    LET t == thr[j] IN
    /\ t.pc = "stage"
    /\ IF t.stage = 0 THEN n = 0 ELSE IsTotal(t, n) /\ t.idx = n
    /\ IF t.stage < NumSteps
       THEN UpdateBegin(j, [t EXCEPT !.stage = t.stage + 1, !.idx = 0, !.total = Unknown],
                        SerialStep(t.stage + 1, 0), StepStart(t.stage + 1), RunningMsg(t.stage + 1), "stage")
       ELSE UpdateBegin(j, [t EXCEPT !.total = n], SerialArchive,
                        NumSteps * Span, "Creating archive", "pre_archive")
    /\ UNCHANGED <<st, now, jobs, call, archives, obs>>

\* the running stage handles its next file and calls callback(label, index / total, ...)
FileOk(j, n) ==
    LET t == thr[j] IN
    /\ IsTotal(t, n)
    /\ t.idx < n
    /\ UpdateBegin(j, [t EXCEPT !.idx = t.idx + 1, !.total = n], SerialStep(t.stage, t.idx + 1),
                   StepCallback(t.stage, t.idx + 1, n), FileMsg(t.stage), "stage")
    /\ UNCHANGED <<st, now, jobs, call, archives, obs>>

\* the running stage raises e on its next file
FileFail(j, n, e, c) ==
    /\ IsTotal(thr[j], n)
    /\ thr[j].idx < n
    /\ e \in StageErrors(thr[j].stage)
    /\ Raise(j, n, e, c)

\* the characters of a project id
ProjectIds == {"abc", "abc1", "abc-1", "ab"}
Chars(project) ==
    CASE project = "abc" -> <<"a", "b", "c">>
      [] project = "abc1" -> <<"a", "b", "c", "1">>
      [] project = "abc-1" -> <<"a", "b", "c", "-", "1">>
      [] OTHER -> <<"a", "b">>

\* str(n) for an int n >= 0, as its characters
RECURSIVE Digits(_)
Digits(n) ==
    LET d == <<"0", "1", "2", "3", "4", "5", "6", "7", "8", "9">>[(n % 10) + 1] IN
    IF n < 10 THEN <<d>> ELSE Append(Digits(n \div 10), d)

\* a faulty name: no separator between the project id and the timestamp
ArchiveNameUnseparated(project, t) == Chars(project) \o Digits(t) \o <<".zip">>

\* build_name = f"{project_id}-{int(time.time())}"; make_archive adds ".zip".
\* The clock of the model counts whole seconds, the value int() keeps.
ArchiveName(project, t) == Chars(project) \o <<"-">> \o Digits(t) \o <<".zip">>

\* a faulty last report: the ratio the archiving started with
BuiltRatioOfStart == NumSteps * Span

\* the ratio of callback("archive", 1.0, "Build complete")
BuiltRatio == One

\* archive_path = self._archive_build(...); callback("archive", 1.0, "Build complete")
ArchiveOk(j, t) ==
    LET path == ArchiveName(job[thr[j].ref].project_id, t) IN
    /\ thr[j].pc = "pre_archive"
    /\ TimeTime(t)
    /\ archives' = archives \cup {path}
    /\ UpdateBegin(j, [thr[j] EXCEPT !.archive = path, !.asec = t], SerialBuilt, BuiltRatio, "Build complete", "post_archive")
    /\ UNCHANGED <<st, jobs, call, obs>>

\* shutil.make_archive raises e
ArchiveFail(j, e, c) ==
    /\ thr[j].pc = "pre_archive"
    /\ e \in ArchiveErrors
    /\ Raise(j, thr[j].total, e, c)

\* return archive_path, but removing the working directory raises c
ReturnFail(j, c) ==
    /\ thr[j].pc = "post_archive"
    /\ c \in CleanupErrors
    /\ Raise(j, thr[j].total, NoExc, c)

\* --------------------------------------------- _run_job: completion
\* return archive_path (the working directory is removed);
\* with self._lock: job.status = "completed"
CompleteStatus(j) ==
    LET o == thr[j].ref IN
    /\ thr[j].pc = "post_archive"
    /\ lock = 0
    /\ lock' = j
    /\ job' = [job EXCEPT ![o].status = "completed"]
    /\ fver' = [fver EXCEPT ![o].status = SerialComplete]
    /\ thr' = [thr EXCEPT ![j].pc = "k_progress", ![j].seq = SerialComplete,
                          ![j].tmp = Cleanup(thr[j].tmp, NoExc)]
    /\ UNCHANGED <<st, now, jobs, call, archives, obs>>

\* job.progress = 1.0
CompleteProgress(j) ==
    /\ thr[j].pc = "k_progress"
    /\ job' = [job EXCEPT ![thr[j].ref].progress = One]
    /\ fver' = [fver EXCEPT ![thr[j].ref].progress = thr[j].seq]
    /\ thr' = [thr EXCEPT ![j].pc = "k_message"]
    /\ UNCHANGED <<st, now, lock, jobs, call, archives, obs>>

\* job.message = "Build completed"
CompleteMessage(j) ==
    /\ thr[j].pc = "k_message"
    /\ job' = [job EXCEPT ![thr[j].ref].message = "Build completed"]
    /\ fver' = [fver EXCEPT ![thr[j].ref].message = thr[j].seq]
    /\ thr' = [thr EXCEPT ![j].pc = "k_artifact"]
    /\ UNCHANGED <<st, now, lock, jobs, call, archives, obs>>

\* job.artifact_path = archive_path
CompleteArtifact(j) ==
    /\ thr[j].pc = "k_artifact"
    /\ job' = [job EXCEPT ![thr[j].ref].artifact_path = thr[j].archive]
    /\ fver' = [fver EXCEPT ![thr[j].ref].artifact_path = thr[j].seq]
    /\ thr' = [thr EXCEPT ![j].pc = "k_updated"]
    /\ UNCHANGED <<st, now, lock, jobs, call, archives, obs>>

\* a faulty handler: it runs after the try body whether or not it raised
HandlerRunsAlways(e) == TRUE

\* except Exception as exc: the handler runs when the try body raised
HandlerRuns(e) == e # NoExc

\* job.updated_at = time.time(); the lock is released and the try body is left
CompleteUpdatedAt(j, t) ==
    /\ thr[j].pc = "k_updated"
    /\ TimeTime(t)
    /\ job' = [job EXCEPT ![thr[j].ref].updated_at = t]
    /\ fver' = [fver EXCEPT ![thr[j].ref].updated_at = thr[j].seq]
    /\ lock' = 0
    /\ thr' = [thr EXCEPT ![j].pc = IF HandlerRuns(thr[j].exc) THEN "except" ELSE "done"]
    /\ UNCHANGED <<st, jobs, call, archives, obs>>

\* ------------------------------------------------ callers of the API
\* A caller holds the BuildJob start_build, get_job or list_jobs returned (the
\* object itself) and serialises it with to_dict, which reads the fields one
\* by one without the lock.
\* the caller starts to serialise the objects `refs` it got from `src`
ObsBegin(src, refs) ==
    obs' = [obs EXCEPT !.pc = "read", !.src = src, !.refs = refs, !.i = 1, !.k = 1,
                       !.snap = NoSnap, !.sver = NoVer]

\* trigger_build: job = build_manager.start_build(project_id) has returned
ObsCreate(c) ==
    /\ obs.pc = "idle"
    /\ call[c] = "returned"
    /\ ObsBegin("create", <<c>>)
    /\ UNCHANGED <<st, now, lock, jobs, job, call, thr, archives, fver>>

\* get_build: job = build_manager.get_job(job_id); if not job: 404
ObsGet(id) ==
    /\ obs.pc = "idle"
    /\ lock = 0
    /\ DictGet(jobs, id) # 0
    /\ ObsBegin("get", <<DictGet(jobs, id)>>)
    /\ UNCHANGED <<st, now, lock, jobs, job, call, thr, archives, fver>>

\* list_builds: for job in build_manager.list_jobs()
ObsList ==
    /\ obs.pc = "idle"
    /\ lock = 0
    /\ ListJobs # <<>>
    /\ ObsBegin("list", ListJobs)
    /\ UNCHANGED <<st, now, lock, jobs, job, call, thr, archives, fver>>

\* str(self.artifact_path) if self.artifact_path else None
ToDictPath(path) == path

\* to_dict reads the next mutable field of the object; id and project_id are
\* read before status and created_at before updated_at (nothing assigns them).
\* With `track` the history of the serial numbers read is kept.
ToDict(track) ==
    LET o == obs.refs[obs.i]
        f == Fields[obs.k]
        s0 == IF obs.k = 1
              THEN [obs.snap EXCEPT !.id = job[o].id, !.project_id = job[o].project_id]
              ELSE IF obs.k = Len(Fields)
              THEN [obs.snap EXCEPT !.created_at = job[o].created_at]
              ELSE obs.snap
        v == IF f = "artifact_path" THEN ToDictPath(job[o][f]) ELSE job[o][f] IN
    /\ obs.pc = "read"
    /\ obs' = [obs EXCEPT !.snap = [s0 EXCEPT ![f] = v],
                          !.sver = IF track THEN [obs.sver EXCEPT ![f] = fver[o][f]]
                                   ELSE obs.sver,
                          !.k = obs.k + 1,
                          !.pc = IF obs.k = Len(Fields) THEN "returned" ELSE "read"]
    /\ UNCHANGED <<st, now, lock, jobs, job, call, thr, archives, fver>>

ObsRead == ToDict(FALSE)
ObsReadTracked == ToDict(TRUE)

\* the caller has the dict to_dict returned; it goes on with the next object
\* of the list, or the request ends
ObsDone ==
    /\ obs.pc = "returned"
    /\ obs' = IF obs.i < Len(obs.refs)
              THEN [obs EXCEPT !.pc = "read", !.i = obs.i + 1, !.k = 1,
                               !.snap = NoSnap, !.sver = NoVer]
              ELSE [IdleObs EXCEPT !.last =
                      IF obs.src = "get"
                      THEN [ref |-> obs.refs[obs.i], progress |-> obs.snap.progress,
                            terminal |-> obs.snap.status \in Terminal]
                      ELSE obs.last]
    /\ UNCHANGED <<st, now, lock, jobs, job, call, thr, archives, fver>>

Times == 0..MaxTime
Cleanups == CleanupErrors \cup {NoExc}

\* one step of the thread of job j
RunJob(j) ==
    \/ RunGetJob(j) \/ Run296(j) \/ Run297(j)
    \/ \E n \in 0..MaxFiles : NextStep(j, n) \/ FileOk(j, n)
    \/ \E n \in 0..MaxFiles, e \in StageErrors(thr[j].stage), c \in Cleanups : FileFail(j, n, e, c)
    \/ \E t \in Times : ArchiveOk(j, t)
    \/ \E e \in ArchiveErrors, c \in Cleanups : ArchiveFail(j, e, c)
    \/ \E c \in CleanupErrors : ReturnFail(j, c)
    \/ UpdateProgress(j) \/ UpdateMessage(j)
    \/ \E t \in Times : UpdateUpdatedAt(j, t)
    \/ CompleteStatus(j) \/ CompleteProgress(j) \/ CompleteMessage(j) \/ CompleteArtifact(j)
    \/ \E t \in Times : CompleteUpdatedAt(j, t) \/ FailUpdatedAt(j, t)
    \/ FailStatus(j) \/ FailMessage(j)

\* one step of a start_build call
StartBuild(c) ==
    \/ \E p \in Projects, t1, t2 \in Times : StartBuildInsert(c, p, t1, t2)
    \/ StartBuildThread(c)
    \/ StartBuildReturn(c)

\* one step of a caller of trigger_build, get_build or list_builds
Observe ==
    \/ \E c \in Calls : ObsCreate(c) \/ ObsGet(Uuid4(c))
    \/ ObsList
    \/ ObsRead
    \/ ObsDone

\* the registry under concurrent start_build calls and their job threads
Next ==
    \/ \E c \in Calls : StartBuild(c)
    \/ \E j \in Calls : RunJob(j)

Spec == Init /\ [][Next]_vars

\* every start_build call and every job thread that stays able to take a step
\* takes one; the clock is at its cap from the start, which no step depends on
FairSpec ==
    /\ InitAt(MaxTime)
    /\ [][Next]_vars
    /\ \A c \in Calls : WF_vars(StartBuild(c)) /\ WF_vars(RunJob(c))

\* one build and the callers reading its record
ObsCalls == {1}

ObsNext ==
    \/ \E c \in ObsCalls : StartBuild(c) \/ RunJob(c)
    \/ Observe

ObsSpec == Init /\ [][ObsNext]_vars

\* one build and a caller listing the builds, with the history of what it read
RaceNext ==
    \/ \E c \in ObsCalls : StartBuild(c) \/ RunJob(c)
    \/ ObsList
    \/ ObsReadTracked
    \/ ObsDone

RaceSpec == Init /\ [][RaceNext]_vars

\* one build alone
OneNext == \E c \in ObsCalls : StartBuild(c) \/ RunJob(c)

OneSpec == Init /\ [][OneNext]_vars

\* the jobs whose stages and archiving may block for ever
Blocked == {1}

\* a step thread j takes while it holds the lock
Critical(j) == lock = j /\ RunJob(j)

\* the threads of the other jobs are scheduled as in FairSpec; a thread of
\* Blocked is only sure to go on while it holds the lock (field assignments
\* do not block), so it may stay inside a stage or the archiving for ever
BlockSpec ==
    /\ InitAt(MaxTime)
    /\ [][Next]_vars
    /\ \A c \in Calls : WF_vars(StartBuild(c)) /\ WF_vars(Critical(c))
    /\ \A c \in Calls \ Blocked : WF_vars(RunJob(c))

\* ================================================= the stage functions
\* One run of a stage function on a source location, taken on its own: the
\* file operations succeed, the only errors are the ones the code raises.

\* ------------------------------------------------------- pathlib.Path
\* a file name is the sequence of its base and its suffixes, each suffix with
\* its dot: a.ogg.json is <<"a", ".ogg", ".json">>

\* Path.suffix
Suffix(name) == IF Len(name) > 1 THEN name[Len(name)] ELSE ""

\* Path.stem
Stem(name) == IF Len(name) > 1 THEN SubSeq(name, 1, Len(name) - 1) ELSE name

\* Path.with_suffix(sfx), sfx given as the sequence of suffixes it is made of
WithSuffix(name, sfx) == Stem(name) \o sfx

\* str.lower on the suffixes that occur
Lower(s) ==
    CASE s = ".OGG" -> ".ogg"
      [] s = ".WAV" -> ".wav"
      [] s = ".DDS" -> ".dds"
      [] s = ".MP3" -> ".mp3"
      [] OTHER -> s

\* ------------------------------------------------------------ storage
METADATA_EXTENSION == ".json"

\* a directory is the set of its files, each a name and its content
File(name, data) == [name |-> name, data |-> data]
Names(files) == {f.name : f \in files}
Data(files, name) == (CHOOSE f \in files : f.name = name).data
Write(files, name, data) == {f \in files : f.name # name} \cup {File(name, data)}

\* a location: a directory that may not exist
Location(files) == [exists |-> TRUE, files |-> files]
Missing == [exists |-> FALSE, files |-> {}]

\* contents: the bytes of an asset; a JSON object with entries; the JSON object {}
Bytes == "bytes"
SomeMeta == "{composer, title}"
EmptyDict == "{}"

\* the DDS image a converter writes
Converted == "dds image"

\* asset_path.with_suffix(asset_path.suffix + METADATA_EXTENSION)
MetadataPath(name) ==
    WithSuffix(name, IF Suffix(name) = "" THEN <<METADATA_EXTENSION>>
                     ELSE <<Suffix(name), METADATA_EXTENSION>>)

\* storage.load_asset_metadata: the sidecar's object, or {} when there is none
LoadAssetMetadata(files, name) ==
    IF MetadataPath(name) \in Names(files) THEN Data(files, MetadataPath(name))
    ELSE EmptyDict

\* upload_audio: the file is stored under its name with its sidecar beside it;
\* other extensions are refused (415)
AudioExtensions == {".ogg", ".wav"}

UploadAudio(name) ==
    /\ st.pc = "idle"
    /\ st.step = 3
    /\ Lower(Suffix(name)) \in AudioExtensions
    /\ st' = [st EXCEPT !.src = Location(
                 Write(Write(st.src.files, name, Bytes), MetadataPath(name), SomeMeta))]
    /\ UNCHANGED sys

\* ------------------------------------------------------- stage helpers
\* BuildError(message), the message given by the pieces it is formatted from
BuildError(pieces) == [exc |-> TRUE, msg |-> pieces]

\* a faulty _validate_audio: the suffix is compared as it is written
ValidateAudioAsWritten(name) ==
    IF Suffix(name) \notin AudioExtensions
    THEN BuildError(<<"Unsupported audio format: ", Suffix(name)>>)
    ELSE NoExc

\* _validate_audio
ValidateAudio(name) ==
    IF Lower(Suffix(name)) \notin AudioExtensions
    THEN BuildError(<<"Unsupported audio format: ", Suffix(name)>>)
    ELSE NoExc

\* _detect_converter: the first candidate shutil.which finds among `found`
NoConverter == "None"
Candidates == <<"magick", "convert", "texconv">>

RECURSIVE FirstFound(_, _, _)
FirstFound(cands, i, found) ==
    IF i > Len(cands) THEN NoConverter
    ELSE IF cands[i] \in found THEN cands[i]
    ELSE FirstFound(cands, i + 1, found)

\* a faulty resolver: a tool _build_converter_command does not know is a candidate
DetectConverterMore(found) == FirstFound(<<"nvcompress">> \o Candidates, 1, found)

DetectConverter(found) == FirstFound(Candidates, 1, found)

\* _build_converter_command: the argument list, or the error it raises
BuildConverterCommand(conv, source, destination) ==
    IF conv = "texconv"
    THEN [err |-> NoExc,
          cmd |-> <<"texconv", "-f", "BC7_UNORM", "-y", "-o", "gfx", source>>]
    ELSE IF conv \in {"magick", "convert"}
    THEN [err |-> NoExc, cmd |-> <<conv, source, destination>>]
    ELSE [err |-> BuildError(<<"Unsupported converter configured">>), cmd |-> <<>>]

\* a faulty _convert_to_dds: the converter is looked for before the suffix
ConvertToDdsNeedsConverter(files, out, name, target, conv, ok) ==
    IF conv = NoConverter
    THEN [err |-> BuildError(<<"No DDS converter (ImageMagick or texconv) available">>),
          out |-> out]
    ELSE [err |-> NoExc, out |-> Write(out, target, Data(files, name))]

\* _convert_to_dds(source, destination); ok: the converter exits with status 0
ConvertToDds(files, out, name, target, conv, ok) ==
    IF Lower(Suffix(name)) = ".dds"
    THEN [err |-> NoExc, out |-> Write(out, target, Data(files, name))]
    ELSE IF conv = NoConverter
    THEN [err |-> BuildError(<<"No DDS converter (ImageMagick or texconv) available">>),
          out |-> out]
    ELSE LET c == BuildConverterCommand(conv, name, target) IN
         IF c.err # NoExc THEN [err |-> c.err, out |-> out]
         ELSE IF ~ok
         THEN [err |-> BuildError(<<"Failed to convert ", name, " to DDS: ", "stderr">>),
               out |-> out]
         ELSE [err |-> NoExc, out |-> Write(out, target, Converted)]

\* the body of the loop of _collect_project_files
CollectFile(files, out, name) ==
    [err |-> NoExc, out |-> Write(out, name, Data(files, name))]

\* the body of the loop of _convert_dds_assets
ConvertFile(files, out, name, conv, ok) ==
    ConvertToDds(files, out, name, Stem(name) \o <<".dds">>, conv, ok)

\* the body of the loop of _package_audio_tracks
PackageFile(files, out, name) ==
    LET copied == Write(out, name, Data(files, name))
        metadata == LoadAssetMetadata(files, name)
    IN IF ValidateAudio(name) # NoExc THEN [err |-> ValidateAudio(name), out |-> out]
       ELSE [err |-> NoExc,
             out |-> IF metadata # EmptyDict
                     THEN Write(copied, name \o <<METADATA_EXTENSION>>, metadata)
                     ELSE copied]

\* ------------------------------------------------- _render_descriptor
\* a str is the sequence of the pieces it is formatted from; in the manifest
\* (project.json) a key is absent, <<>>, or present with value v, <<v>>
Get(entry, default) == IF entry = <<>> THEN default ELSE entry[1]

NoManifest == [name |-> <<>>, version |-> <<>>, supported_version |-> <<>>, tags |-> <<>>]

\* sep.join(items)
RECURSIVE Join(_, _)
Join(items, sep) ==
    IF items = <<>> THEN <<>>
    ELSE IF Len(items) = 1 THEN items[1]
    ELSE items[1] \o sep \o Join(Tail(items), sep)

\* the three lines, with name first
LinesNameFirst(version, name, supported_version) ==
    << <<"name=\"">> \o name \o <<"\"">>,
       <<"version=\"">> \o version \o <<"\"">>,
       <<"supported_version=\"">> \o supported_version \o <<"\"">> >>

\* lines = [f"version=...", f"name=...", f"supported_version=..."]
Lines(version, name, supported_version) ==
    << <<"version=\"">> \o version \o <<"\"">>,
       <<"name=\"">> \o name \o <<"\"">>,
       <<"supported_version=\"">> \o supported_version \o <<"\"">> >>

RenderDescriptor(project_id, metadata) ==
    LET name == Get(metadata.name, <<"OpenCK3 ", project_id>>)
        version == Get(metadata.version, <<"1.0">>)
        tags == Get(metadata.tags, <<>>)
        supported_version == Get(metadata.supported_version, <<"1.11.*">>)
        lines == Lines(version, name, supported_version)
        all == IF tags # <<>>
               THEN Append(lines, <<"tags={ ">> \o Join(tags, <<",">>) \o <<" }">>)
               ELSE lines
    IN Join(all, <<"\n">>) \o <<"\n">>

\* ------------------------------------------------------ one stage run
\* the service is constructed (self._converter = self._detect_converter(), with
\* `found` the tools on the search path) and a stage is about to be called
Idle(step, src, found, manifest) ==
    [pc |-> "idle", step |-> step, project |-> "abc", src |-> src,
     found |-> found, conv |-> DetectConverter(found),
     manifest |-> manifest, todo |-> {}, total |-> 0, cur |-> <<>>, made |-> FALSE,
     out |-> {}, text |-> <<>>, rep |-> <<>>, err |-> NoExc]

\* the stage lists its source location; a texture or audio location that does
\* not exist makes the stage return at once
StageBegin ==
    /\ st.pc = "idle"
    /\ st.step \in 1..3
    /\ st' = IF st.step \in {2, 3} /\ ~st.src.exists
             THEN [st EXCEPT !.pc = "returned"]
             ELSE [st EXCEPT !.pc = "loop", !.made = st.step \in {2, 3},
                             !.todo = Names(st.src.files),
                             !.total = IF st.src.files = {} THEN 1
                                       ELSE Cardinality(st.src.files)]
    /\ UNCHANGED sys

\* one turn of the stage's loop, on the file the listing gives next: the file
\* is processed and callback(index / total) is made, or the stage raises
StageFile(name, ok) ==
    /\ st.pc = "loop"
    /\ name \in st.todo
    /\ LET r == CASE st.step = 1 -> CollectFile(st.src.files, st.out, name)
                  [] st.step = 2 -> ConvertFile(st.src.files, st.out, name, st.conv, ok)
                  [] OTHER -> PackageFile(st.src.files, st.out, name)
       IN st' = IF r.err # NoExc
                THEN [st EXCEPT !.pc = "raised", !.cur = name, !.err = r.err]
                ELSE [st EXCEPT !.cur = name, !.out = r.out, !.todo = st.todo \ {name},
                                !.rep = Append(st.rep, <<Len(st.rep) + 1, st.total>>)]
    /\ UNCHANGED sys

\* the loop is over
StageReturn ==
    /\ st.pc = "loop"
    /\ st.todo = {}
    /\ st' = [st EXCEPT !.pc = "returned"]
    /\ UNCHANGED sys

\* _write_descriptor: descriptor.mod is written and callback(1.0) is made
WriteDescriptor ==
    /\ st.pc = "idle"
    /\ st.step = 4
    /\ st' = [st EXCEPT !.pc = "returned", !.cur = <<"descriptor", ".mod">>,
                        !.text = RenderDescriptor(st.project, st.manifest),
                        !.rep = <<<<1, 1>>>>]
    /\ UNCHANGED sys

\* the inputs
ProjectFiles == {File(<<"events", ".txt">>, Bytes), File(<<"project", ".json">>, SomeMeta)}
TextureFiles ==
    {File(<<"t", ".dds">>, Bytes), File(<<"u", ".DDS">>, Bytes), File(<<"v", ".png">>, Bytes)}
AudioFiles ==
    {File(<<"a", ".ogg">>, Bytes), File(<<"a", ".ogg", ".json">>, SomeMeta),
     File(<<"a", ".ogg", ".json">>, EmptyDict), File(<<"b", ".WAV">>, Bytes),
     File(<<"c", ".mp3">>, Bytes)}
UploadNames == {<<"a", ".ogg">>, <<"b", ".WAV">>, <<"c", ".mp3">>}
Tools == {"magick", "convert", "texconv", "nvcompress"}
Manifests ==
    [name : {<<>>, << <<"My Mod">> >>}, version : {<<>>, << <<"2.0">> >>},
     supported_version : {<<>>, << <<"1.12.*">> >>},
     tags : {<<>>, << <<>> >>, << << <<"flavor">> >> >>,
             << << <<"flavor">>, <<"ui">> >> >>, << << <<"ui">>, <<"flavor">> >> >>}]

\* the directories that can be made of the files of `universe`
Dirs(universe) == {d \in SUBSET universe : \A f, g \in d : f.name = g.name => f = g}
Locations(universe) == {Location(d) : d \in Dirs(universe)} \cup {Missing}

StageInputs ==
    {Idle(1, Location(d), {}, NoManifest) : d \in Dirs(ProjectFiles)}
    \cup {Idle(2, l, found, NoManifest) :
            l \in Locations(TextureFiles), found \in SUBSET Tools}
    \cup {Idle(3, l, {}, NoManifest) : l \in Locations(AudioFiles)}
    \cup {Idle(4, Missing, {}, m) : m \in Manifests}

StageInit == SysInit(0) /\ st \in StageInputs

StageNext ==
    \/ \E name \in UploadNames : UploadAudio(name)
    \/ StageBegin
    \/ \E name \in st.todo, ok \in BOOLEAN : StageFile(name, ok)
    \/ StageReturn
    \/ WriteDescriptor

StageSpec == StageInit /\ [][StageNext]_vars

\* ================================================================ claims
Exists(o) == job[o] # NoJob

\* a thread is inside a critical section that assigns fields of object o
InCritical(o) == \E j \in Calls : lock = j /\ thr[j].ref = o

\* the thread of call j has ended
Ended(j) == thr[j].pc = "done"

StatusMoves == {<<"queued", "running">>, <<"running", "completed">>, <<"running", "failed">>}

\* C1: a job is constructed with status queued; its status leaves queued only
\* for running, by the first assignment of its thread; completed and failed
\* are entered only from running.
C1_StatusPath ==
    [][\A o \in Calls :
         /\ (~Exists(o) /\ job'[o] # NoJob) => job'[o].status = "queued"
         /\ Exists(o) =>
              /\ job'[o] # NoJob
              /\ \/ job'[o].status = job[o].status
                 \/ <<job[o].status, job'[o].status>> \in StatusMoves
              /\ (job[o].status = "queued" /\ job'[o].status # "queued") =>
                    \E j \in Calls : thr[j].pc = "s296" /\ thr[j].ref = o /\ thr'[j].pc = "s297"]_vars

C1_Witness ==
    \E a, b \in Calls :
        /\ Exists(a) /\ job[a].status = "completed"
        /\ Exists(b) /\ job[b].status = "failed"

\* C2: once the status of a job is completed or failed it keeps that status,
\* and once the critical section that made it terminal is left no step (of
\* its thread, of another job's thread or start_build call) changes any field.
C2_TerminalAbsorbing ==
    [][\A o \in Calls :
         (Exists(o) /\ job[o].status \in Terminal) =>
            /\ job'[o] # NoJob
            /\ job'[o].status = job[o].status
            /\ ~InCritical(o) => job'[o] = job[o]]_vars

C2_Witness ==
    \E a, b \in Calls :
        /\ a # b
        /\ Exists(a) /\ job[a].status \in Terminal /\ Ended(a)
        /\ Exists(b) /\ job[b].status = "running" /\ job[b].progress > 0
        /\ job[b].created_at >= job[a].updated_at

\* C3: the progress a get_build request returns for a job is not below the
\* progress the previous get_build request returned for that job, when that
\* one showed a status that is not terminal.
C3_ProgressMonotone ==
    (/\ obs.pc = "returned"
     /\ obs.src = "get"
     /\ obs.last.ref = obs.refs[obs.i]
     /\ ~obs.last.terminal)
    => obs.snap.progress >= obs.last.progress

C3_Witness ==
    /\ obs.pc = "returned"
    /\ obs.src = "get"
    /\ obs.last.ref = obs.refs[obs.i]
    /\ ~obs.last.terminal
    /\ obs.last.progress > 0
    /\ obs.snap.progress > obs.last.progress
    /\ obs.snap.progress < One

\* C4: a dict a caller got from to_dict with status completed has an
\* artifact_path, and the archive file of that path exists.
C4_CompletedHasArtifact ==
    (obs.pc = "returned" /\ obs.snap.status = "completed")
    => (obs.snap.artifact_path # NoPath /\ obs.snap.artifact_path \in archives)

\* C5: a job whose failure has been recorded has a non-empty message and no
\* artifact_path.
C5_FailedHasMessage ==
    \A o \in Calls :
        (Exists(o) /\ job[o].status = "failed" /\ ~InCritical(o))
        => (job[o].message # "" /\ job[o].artifact_path = NoPath)

\* C6: when a stage or archiving raised, the job ends failed with the message
\* of the error that stage or archiving raised.
C6_FailedWithRaisedMessage ==
    \A j \in Calls :
        (Ended(j) /\ thr[j].ref # 0 /\ thr[j].raised # NoExc)
        => (job[thr[j].ref].status = "failed"
            /\ job[thr[j].ref].message = Str(thr[j].raised))

\* the calls whose insertion into the registry has been made
Inserted == {c \in Calls : call[c] # "idle"}

\* C7: list_jobs returns one record for each start_build call made, with
\* pairwise distinct ids, and the registry only ever grows at its end.
C7_RegistryComplete ==
    /\ [](/\ Len(ListJobs) = Cardinality(Inserted)
          /\ {ListJobs[i] : i \in 1..Len(ListJobs)} = Inserted
          /\ \A i, k \in 1..Len(ListJobs) :
                i # k => job[ListJobs[i]].id # job[ListJobs[k]].id
          /\ \A i \in 1..Len(jobs) : jobs[i].key = job[jobs[i].obj].id)
    /\ [][\/ jobs' = jobs
          \/ \E c \in Calls :
                /\ call[c] = "idle"
                /\ job'[c] # NoJob
                /\ jobs' = Append(jobs, [key |-> job'[c].id, obj |-> c])]_vars

C7_Witness ==
    /\ \A c \in Calls : call[c] = "returned"
    /\ Len(ListJobs) = MaxJobs
    /\ \E c \in Calls : job[c].status \in Terminal /\ Ended(c)
    /\ ListJobs[1] # 1

\* C8: every job start_build has inserted eventually has status completed or
\* failed.
C8_EventuallyTerminal ==
    \A c \in Calls :
        (call[c] # "idle") ~> (Exists(c) /\ job[c].status \in Terminal /\ Ended(c))

C8_Witness ==
    \A c \in Calls : Exists(c) /\ job[c].status \in Terminal /\ Ended(c)

\* C9: the dict made from the record start_build returned shows status queued
\* and progress 0, whenever the caller makes it.
C9_CreateSnapshot ==
    (obs.pc = "returned" /\ obs.src = "create")
    => (obs.snap.status = "queued" /\ obs.snap.progress = 0)

\* the values read are torn: one field has the value a critical section
\* assigned and another field that critical section assigns has an older value
Torn(sv) ==
    \E f, g \in FieldSet : sv[f] > sv[g] /\ g \in Written(sv[f])

\* the messages the handler can store
ErrorTexts ==
    {Str(e) : e \in UNION {StageErrors(i) : i \in 1..NumSteps}
                      \cup ArchiveErrors \cup CleanupErrors}

\* status, progress, message and artifact_path of d are those of the record as
\* construction, lines 296-297 or one whole mutation left it
Whole(d) ==
    \/ /\ d.message \in {"Queued", "Starting build"}
       /\ d.status \in {"queued", "running"}
       /\ d.progress = 0
       /\ d.artifact_path = NoPath
    \/ /\ d.status = "running"
       /\ d.artifact_path = NoPath
       /\ \/ \E index \in 1..NumSteps :
                /\ d.message = RunningMsg(index)
                /\ d.progress = StepStart(index)
          \/ \E index \in 1..NumSteps :
                \E total \in Totals(index) \ {0} : \E num \in 1..total :
                    /\ d.message = FileMsg(index)
                    /\ d.progress = StepCallback(index, num, total)
          \/ d.message = "Creating archive" /\ d.progress = NumSteps * Span
          \/ d.message = "Build complete" /\ d.progress = One
    \/ /\ d.status = "completed"
       /\ d.message = "Build completed"
       /\ d.progress = One
       /\ d.artifact_path # NoPath
    \/ /\ d.status = "failed"
       /\ d.message \in ErrorTexts
       /\ d.artifact_path = NoPath

\* outside critical sections every record is whole
RecordsWhole ==
    \A o \in Calls : (Exists(o) /\ ~InCritical(o)) => Whole(job[o])

\* C10: no dict a caller got from to_dict holds, of the fields one critical
\* section assigns, the new value of one and the old value of another, so that
\* it shows a record no mutation left.
C10_NoTornRead ==
    obs.pc = "returned" => ~(Torn(obs.sver) /\ ~Whole(obs.snap))

\* C11: every step that changes a field of a job record is taken by a thread
\* that holds the lock (it has it before the step or, entering a critical
\* section with this assignment, after it).
C11_WritesUnderLock ==
    [][\A o \in Calls :
         (Exists(o) /\ job'[o] # job[o]) =>
            \E j \in Calls : thr[j].ref = o /\ (lock = j \/ lock' = j)]_vars

\* thread j is inside a stage or about to archive
InStage(j) == (thr[j].pc = "stage" /\ thr[j].stage >= 1) \/ thr[j].pc = "pre_archive"

\* C12: a thread inside a stage or the archiving does not hold the lock; even
\* when the threads of Blocked stay there for ever the lock is always released
\* again (so get_job and list_jobs can take it) and every other job inserted
\* reaches completed or failed.
C12_StagesOutsideLock ==
    /\ [](\A j \in Calls : InStage(j) => lock # j)
    /\ (lock # 0) ~> (lock = 0)
    /\ \A c \in Calls \ Blocked :
          (call[c] # "idle") ~> (Exists(c) /\ job[c].status \in Terminal /\ Ended(c))

C12_Witness ==
    \E j \in Blocked, c \in Calls \ Blocked :
        /\ InStage(j) /\ thr[j].stage = 1 /\ thr[j].idx = 0
        /\ Ended(c) /\ job[c].status = "completed"
        /\ jobs[1].obj = j

\* thread j is in the callback `update`, called with ratio thr[j].ratio
InUpdate(j) == thr[j].pc \in {"u_progress", "u_message", "u_updated"}

\* C13: with s = 1/(n+1), the ratio update is called with is (i-1)*s before
\* stage i, (i-1)*s + r*s after file num of total of stage i (r = num/total),
\* n*s before archiving and 1.0 after it, and that ratio is what the callback
\* stores in progress.
C13_ProgressMapping ==
    \A j \in Calls : InUpdate(j) =>
        LET t == thr[j]
            s == One \div (NumSteps + 1)
        IN
        /\ s * (NumSteps + 1) = One
        /\ \/ /\ t.seq = SerialBuilt /\ t.at = "post_archive"
              /\ t.ratio = One
           \/ /\ t.seq = SerialArchive /\ t.at = "pre_archive"
              /\ t.ratio = NumSteps * s
           \/ /\ t.seq = SerialStep(t.stage, 0) /\ t.at = "stage"
              /\ t.idx = 0 /\ t.stage \in 1..NumSteps
              /\ t.ratio = (t.stage - 1) * s
           \/ /\ t.seq = SerialStep(t.stage, t.idx) /\ t.at = "stage"
              /\ t.idx \in 1..t.total /\ t.stage \in 1..NumSteps
              /\ t.total * (t.ratio - (t.stage - 1) * s) = t.idx * s
        /\ t.pc # "u_progress" => job[t.ref].progress = t.ratio

C13_Witness ==
    \E j \in Calls :
        /\ thr[j].pc = "u_message"
        /\ thr[j].stage = 3 /\ thr[j].idx = 1
        /\ job[thr[j].ref].progress = 3 * Span

\* C14: no job has progress 1.0 together with status failed.
C14_FullProgressOnlyOnSuccess ==
    \A o \in Calls :
        Exists(o) => ~(job[o].progress = One /\ job[o].status = "failed")

\* the double a decimal literal d/10 denotes (0.2 is Tenths(2), 1.0 is Tenths(10))
Tenths(d) == FDiv(d, 10)

\* C15: as Python floats, the span is 0.2, the n + 1 spans amount to 1.0, the
\* ratio reported before stage i is 0, 0.2, 0.4, 0.6 for i = 1..4 and the one
\* reported before archiving is 0.8.
C15_SpansAndOffsets ==
    \A j \in Calls : InUpdate(j) =>
        /\ FSpan = Tenths(2)
        /\ FMulInt(NumSteps + 1, FSpan) = Tenths(10)
        /\ thr[j].seq = SerialStep(thr[j].stage, 0) =>
              FStepStart(thr[j].stage) = Tenths(2 * (thr[j].stage - 1))
        /\ thr[j].seq = SerialArchive => FArchiveStart = Tenths(8)

\* the stage thread j is in has returned: it has handled every file it listed
Returned(j) ==
    IF thr[j].total = Unknown THEN thr[j].idx = 0 ELSE thr[j].idx = thr[j].total

\* C16: the stages of a build start one after the other in the order of
\* `steps`, each after the one before has returned without error, and the
\* archiving after the last; once a stage has raised, no stage starts, nothing
\* is archived, and the error build_mod raises is the one the stage raised.
C16_StagesInOrder ==
    /\ [][\A j \in Calls :
            /\ thr'[j].stage \in {thr[j].stage, thr[j].stage + 1}
            /\ thr'[j].stage # thr[j].stage =>
                  /\ thr[j].stage >= 1 => Returned(j)
                  /\ thr[j].raised = NoExc
                  /\ thr'[j].msg = RunningMsg(thr'[j].stage)
            /\ (thr[j].pc = "stage" /\ thr'[j].at = "pre_archive") =>
                  thr[j].stage = NumSteps /\ Returned(j) /\ thr[j].raised = NoExc
            /\ thr[j].raised # NoExc =>
                  /\ thr'[j].stage = thr[j].stage
                  /\ (thr[j].archive = NoPath => thr'[j].archive = NoPath)]_vars
    /\ [](\A j \in Calls :
            thr[j].raised # NoExc =>
                /\ thr[j].pc \in {"except", "f_message", "f_updated", "done"}
                /\ thr[j].exc = thr[j].raised)

\* the working directories that exist
WorkDirs == {thr[j].tmp : j \in Calls} \ {NoPath}

\* C17: the builds running have working directories of their own, and the
\* working directory of a job whose status is completed or failed is gone.
C17_WorkDirRemoved ==
    /\ \A j, k \in Calls : (j # k /\ thr[j].tmp # NoPath) => thr[j].tmp # thr[k].tmp
    /\ \A j \in Calls :
          (thr[j].ref # 0 /\ job[thr[j].ref].status \in Terminal) => thr[j].tmp \notin WorkDirs

\* C18: a job with an artifact_path has status completed, and artifact_path is
\* assigned at most once: the assignment finds the field never written and
\* null, and the value it stores is not changed afterwards.
C18_ArtifactOnlyCompleted ==
    /\ [](\A o \in Calls :
            (Exists(o) /\ job[o].artifact_path # NoPath) => job[o].status = "completed")
    /\ [][\A o \in Calls :
            /\ fver'[o].artifact_path # fver[o].artifact_path
                  => (fver[o].artifact_path = 0 /\ job[o].artifact_path = NoPath)
            /\ (Exists(o) /\ job'[o].artifact_path # job[o].artifact_path)
                  => fver'[o].artifact_path # fver[o].artifact_path]_vars

C18_Witness ==
    \E a, b \in Calls :
        /\ Exists(a) /\ job[a].artifact_path # NoPath /\ Ended(a)
        /\ Exists(b) /\ job[b].status = "failed" /\ job[b].artifact_path = NoPath
        /\ thr[b].archive # NoPath

\* a step changes the status or the progress of job o
Changes(o) == job'[o].status # job[o].status \/ job'[o].progress # job[o].progress

\* C19: updated_at of a job never decreases, and a step that changes the
\* status or the progress of a job belongs to a critical section on that job
\* (each of which ends by assigning updated_at the time read then) or leaves
\* updated_at no older than the clock.
C19_UpdatedAtFollowsChanges ==
    [][\A o \in Calls :
         Exists(o) =>
            /\ job'[o].updated_at >= job[o].updated_at
            /\ Changes(o) =>
                  \/ \E j \in Calls : thr'[j].ref = o /\ lock' = j
                  \/ job'[o].updated_at >= now']_vars

\* C20: the progress of every job lies between 0.0 and 1.0.
C20_ProgressInRange ==
    \A o \in Calls : Exists(o) => (0 <= job[o].progress /\ job[o].progress <= One)

C20_Witness ==
    \E a, b \in Calls :
        /\ Exists(a) /\ job[a].progress = One /\ job[a].status = "running"
        /\ Exists(b) /\ job[b].progress = StepCallback(NumSteps, 1, 1)
        /\ thr[b].pc = "pre_archive"

\* an audio file: its suffix, lowered, is an allowed one
IsAudio(name) == Lower(Suffix(name)) \in AudioExtensions

\* the location holds what upload_audio stores and nothing else: audio files
\* with allowed suffixes, each with the sidecar of its metadata beside it
Uploaded(loc) ==
    /\ loc.exists
    /\ \E f \in loc.files : IsAudio(f.name)
    /\ \A f \in loc.files :
          \/ /\ IsAudio(f.name)
             /\ MetadataPath(f.name) \in Names(loc.files)
             /\ Data(loc.files, MetadataPath(f.name)) = SomeMeta
          \/ \E a \in loc.files : IsAudio(a.name) /\ f.name = MetadataPath(a.name)

\* C21: on a location that holds uploaded audio files and their sidecars,
\* _package_audio_tracks does not raise, and when it has returned the sound
\* folder holds every audio file and its sidecar.
C21_UploadedAudioPackaged ==
    (st.step = 3 /\ Uploaded(st.src)) =>
        /\ st.pc # "raised"
        /\ st.pc = "returned" =>
              \A f \in st.src.files :
                  IsAudio(f.name) =>
                      {f.name, f.name \o <<METADATA_EXTENSION>>} \subseteq Names(st.out)

\* the files the loop of the stage has processed
Processed == Names(st.src.files) \ st.todo

\* C22: _package_audio_tracks processes only files whose suffix, lowered, is
\* .ogg or .wav; at the first other file it raises "Unsupported audio
\* format", the raising turn of the loop writes and reports nothing, and
\* nothing is processed afterwards; on a location holding only .ogg and .wav
\* files it does not raise, and it returns with every file packaged.
C22_RejectsUnsupportedAudio ==
    /\ [](st.step = 3 =>
            /\ st.pc # "idle" => \A n \in Processed : IsAudio(n) /\ n \in Names(st.out)
            /\ st.pc = "raised" =>
                  /\ ~IsAudio(st.cur) /\ st.cur \in st.todo
                  /\ st.err = BuildError(<<"Unsupported audio format: ", Suffix(st.cur)>>)
            /\ (\A n \in Names(st.src.files) : IsAudio(n)) =>
                  /\ st.pc # "raised"
                  /\ st.pc = "returned" => Names(st.out) = Names(st.src.files))
    /\ [][st.step = 3 =>
            /\ st'.pc = "raised" => (st'.out = st.out /\ st'.rep = st.rep /\ st'.todo = st.todo)
            /\ st.pc = "raised" => st' = st
            /\ (st.pc = "loop" /\ st'.pc = "loop" /\ st' # st) =>
                  (IsAudio(st'.cur) /\ st'.todo = st.todo \ {st'.cur})]_vars

C22_Witness ==
    /\ st.step = 3 /\ st.pc = "raised"
    /\ st.cur = <<"c", ".mp3">>
    /\ st.err = BuildError(<<"Unsupported audio format: ", ".mp3">>)
    /\ <<"b", ".WAV">> \in Names(st.out)
    /\ <<"a", ".ogg">> \in st.todo
    /\ <<"c", ".mp3">> \notin Names(st.out)

\* the stage has nothing to process: its location is missing or empty
NoFiles == ~st.src.exists \/ st.src.files = {}

\* C23: run on a location that is missing or empty, _collect_project_files,
\* _convert_dds_assets and _package_audio_tracks do not raise, and when they
\* have returned their last call of the callback had ratio 1.0.
C23_EmptyStageReportsCompletion ==
    (st.step \in 1..3 /\ NoFiles) =>
        /\ st.pc # "raised"
        /\ st.pc = "returned" =>
              (st.rep # <<>> /\ st.rep[Len(st.rep)][1] = st.rep[Len(st.rep)][2])

\* a DDS source: its suffix, lowered, is .dds
IsDds(name) == Lower(Suffix(name)) = ".dds"

\* where _convert_dds_assets puts the texture made of source `name`
DdsTarget(name) == Stem(name) \o <<".dds">>

\* C24: with no converter found, _convert_dds_assets copies every source whose
\* suffix is .dds into the gfx folder as it is, raises "No DDS converter ...
\* available" at the first source with another suffix, and so does not raise
\* on a location holding only .dds sources.
C24_NoConverterFallback ==
    (st.step = 2 /\ st.conv = NoConverter) =>
        /\ st.pc # "idle" =>
              \A n \in Processed :
                  /\ IsDds(n)
                  /\ DdsTarget(n) \in Names(st.out)
                  /\ Data(st.out, DdsTarget(n)) = Data(st.src.files, n)
        /\ st.pc = "raised" =>
              /\ ~IsDds(st.cur) /\ st.cur \in st.todo
              /\ st.err = BuildError(<<"No DDS converter (ImageMagick or texconv) available">>)
        /\ (\A n \in Names(st.src.files) : IsDds(n)) =>
              /\ st.pc # "raised"
              /\ st.pc = "returned" => Processed = Names(st.src.files)

C24_Witness ==
    /\ st.step = 2 /\ st.conv = NoConverter /\ st.pc = "raised"
    /\ st.cur = <<"v", ".png">>
    /\ <<"u", ".dds">> \in Names(st.out)
    /\ <<"t", ".dds">> \in st.todo

\* the lines of a text: the pieces before each "\n"
RECURSIVE SplitLines(_, _)
SplitLines(text, line) ==
    IF text = <<>> THEN (IF line = <<>> THEN <<>> ELSE <<line>>)
    ELSE IF Head(text) = "\n" THEN <<line>> \o SplitLines(Tail(text), <<>>)
    ELSE SplitLines(Tail(text), Append(line, Head(text)))

\* the value of a key of the manifest, or the default of the key
Value(key, default) == IF st.manifest[key] = <<>> THEN default ELSE st.manifest[key][1]

\* C25: the descriptor written is the lines version, name, supported_version
\* in that order, each with the manifest's value or else its default, then a
\* line tags={ t1,t2,... } in manifest order exactly when the manifest has a
\* non-empty tags list; every line ends with a newline.
C25_DescriptorLines ==
    (st.step = 4 /\ st.pc = "returned") =>
        LET L == SplitLines(st.text, <<>>)
            tags == Value("tags", <<>>)
        IN /\ st.text[Len(st.text)] = "\n"
           /\ Len(L) = IF tags # <<>> THEN 4 ELSE 3
           /\ L[1] = <<"version=\"">> \o Value("version", <<"1.0">>) \o <<"\"">>
           /\ L[2] = <<"name=\"">> \o Value("name", <<"OpenCK3 ", st.project>>) \o <<"\"">>
           /\ L[3] = <<"supported_version=\"">>
                        \o Value("supported_version", <<"1.11.*">>) \o <<"\"">>
           /\ tags # <<>> =>
                 /\ Len(L[4]) = 2 * Len(tags) + 1
                 /\ L[4][1] = "tags={ " /\ L[4][Len(L[4])] = " }"
                 /\ \A i \in 1..Len(tags) : <<L[4][2 * i]>> = tags[i]
                 /\ \A i \in 1..(Len(tags) - 1) : L[4][2 * i + 1] = ","

C25_Witness ==
    /\ st.step = 4 /\ st.pc = "returned"
    /\ st.manifest.name = <<>> /\ st.manifest.version # <<>>
    /\ st.text = <<"version=\"", "2.0", "\"", "\n",
                   "name=\"", "OpenCK3 ", "abc", "\"", "\n",
                   "supported_version=\"", "1.11.*", "\"", "\n",
                   "tags={ ", "flavor", ",", "ui", " }", "\n">>

\* the ids _build_converter_command makes a command for
Known == {"texconv", "magick", "convert"}

\* C26: the converter of the service is the first of magick, convert, texconv
\* that is found, or none; _build_converter_command raises "Unsupported
\* converter configured" for the ids outside these three and for no other; so
\* no run of _convert_dds_assets raises that error.
C26_NoUnsupportedConverter ==
    /\ \A id \in Tools \cup {NoConverter} :
          LET c == BuildConverterCommand(id, <<"v", ".png">>, <<"v", ".dds">>) IN
          /\ id \in Known <=> c.err = NoExc
          /\ id \notin Known <=> c.err = BuildError(<<"Unsupported converter configured">>)
    /\ st.conv = (IF "magick" \in st.found THEN "magick"
                  ELSE IF "convert" \in st.found THEN "convert"
                  ELSE IF "texconv" \in st.found THEN "texconv"
                  ELSE NoConverter)
    /\ st.conv \in Known \cup {NoConverter}
    /\ st.err # BuildError(<<"Unsupported converter configured">>)

C26_Witness ==
    /\ st.step = 2 /\ st.pc = "returned"
    /\ st.found = {"convert", "texconv", "nvcompress"} /\ st.conv = "convert"
    /\ <<"v", ".dds">> \in Names(st.out)
    /\ Data(st.out, <<"v", ".dds">>) = Converted

\* the whole seconds the names are compared over
Seconds == 0..12

\* two archive names are equal exactly when made of the same project id and
\* the same whole second
ArchiveNamesDistinct ==
    \A p1, p2 \in ProjectIds, t1, t2 \in Seconds :
        ArchiveName(p1, t1) = ArchiveName(p2, t2) <=> (p1 = p2 /\ t1 = t2)

\* the threads that have made their archive
Archived == {j \in Calls : thr[j].archive # NoPath}

\* C27: the archive path of a job is made of its project id and the whole
\* second of its archiving alone; two jobs have the same path exactly when
\* they have the same project id and archived in the same second, and then
\* build_root holds one archive for both.
C27_ArchivePathCollisions ==
    /\ ArchiveNamesDistinct
    /\ \A j \in Archived :
          /\ thr[j].archive = ArchiveName(job[thr[j].ref].project_id, thr[j].asec)
          /\ thr[j].archive \in archives
          /\ job[thr[j].ref].artifact_path \in {NoPath, thr[j].archive}
    /\ \A j, k \in Archived :
          thr[j].archive = thr[k].archive <=>
              /\ job[thr[j].ref].project_id = job[thr[k].ref].project_id
              /\ thr[j].asec = thr[k].asec
    /\ archives = {thr[j].archive : j \in Archived}

C27_Witness ==
    \E a, b \in Calls :
        /\ a # b /\ Ended(a) /\ Ended(b)
        /\ job[a].status = "completed" /\ job[b].status = "completed"
        /\ job[a].id # job[b].id
        /\ job[a].artifact_path = job[b].artifact_path
        /\ job[a].artifact_path = ArchiveName("abc", 1)
        /\ Cardinality(archives) = 1

\* C28: id, project_id and created_at of a job never change, and a step that
\* changes a job's record is a step of that job's own thread, which changes
\* no other job's record.
C28_JobFrame ==
    [][\A o \in Calls :
         Exists(o) =>
            /\ job'[o].id = job[o].id
            /\ job'[o].project_id = job[o].project_id
            /\ job'[o].created_at = job[o].created_at
            /\ job'[o] # job[o] =>
                  /\ thr'[o] # thr[o]
                  /\ thr[o].ref = o
                  /\ \A p \in Calls \ {o} : job'[p] = job[p] /\ thr'[p] = thr[p]]_vars

C28_Witness ==
    \E a, b \in Calls :
        /\ a # b /\ lock = a /\ thr[a].pc = "k_progress"
        /\ job[a].status = "completed" /\ job[a].progress = One
        /\ InStage(b) /\ job[b].status = "running"
        /\ job[b].progress = StepCallback(1, 1, 1)
        /\ job[b].created_at < job[a].created_at

\* C29: a job with status completed has progress 1.0: the record already has
\* progress 1.0 in the step that makes its status completed; and the step
\* that makes a job failed, and every step after it, leaves progress as it is.
C29_CompletedHasFullProgress ==
    /\ [](\A o \in Calls :
            (Exists(o) /\ job[o].status = "completed") => job[o].progress = One)
    /\ [][\A o \in Calls :
            Exists(o) =>
               /\ (job'[o].status = "completed" /\ job[o].status # "completed")
                     => job[o].progress = One
               /\ (job'[o].status = "failed" \/ job[o].status = "failed")
                     => job'[o].progress = job[o].progress]_vars

C29_Witness ==
    \E a, b \in Calls :
        /\ Exists(a) /\ job[a].status = "completed" /\ thr[a].pc = "k_progress"
        /\ Exists(b) /\ job[b].status = "failed" /\ Ended(b)
        /\ job[b].progress = StepCallback(2, 1, 1)

====
